---------------------------- MODULE Spec2Model ----------------------------
(***************************************************************************)
(* Montana licence-plate county lookup (montana_plate_lookup.py).          *)
(*                                                                         *)
(* The program loads a CSV file into a dictionary keyed by the integer     *)
(* prefix, asks for a display preference, and then answers queries in a    *)
(* read-eval loop until the user types 'exit'.                             *)
(*                                                                         *)
(* Text is modelled as a sequence of one-character strings, so that        *)
(* str.strip, str.lower and int() are computed, not assumed.  County and   *)
(* seat names are never inspected by the program and stay atomic strings.  *)
(***************************************************************************)
EXTENDS Integers, Sequences, FiniteSets, TLC

(***************************************************************************)
(* Bounds of the model.                                                    *)
(***************************************************************************)
MaxRows == 2          \* data rows in the input file (the header excluded)

(***************************************************************************)
(* Characters and the str methods the program calls.                       *)
(***************************************************************************)
Whitespace == {" ", "\t"}

Digits == <<"0", "1", "2", "3", "4", "5", "6", "7", "8", "9">>

UpperCase == <<"A", "B", "C", "D", "E", "F", "G", "H", "I", "J", "K", "L", "M",
               "N", "O", "P", "Q", "R", "S", "T", "U", "V", "W", "X", "Y", "Z">>

LowerCase == <<"a", "b", "c", "d", "e", "f", "g", "h", "i", "j", "k", "l", "m",
               "n", "o", "p", "q", "r", "s", "t", "u", "v", "w", "x", "y", "z">>

IsDigit(c) == \E i \in 1..Len(Digits) : Digits[i] = c

DigitVal(c) == (CHOOSE i \in 1..Len(Digits) : Digits[i] = c) - 1

LowerChar(c) ==
    IF \E i \in 1..Len(UpperCase) : UpperCase[i] = c
    THEN LowerCase[CHOOSE i \in 1..Len(UpperCase) : UpperCase[i] = c]
    ELSE c

\* variant: the case of the line is kept
lower_KeepsCase(s) == s

\* str.lower()
lower(s) == [i \in 1..Len(s) |-> LowerChar(s[i])]

\* str.strip(): drop the leading and the trailing whitespace
strip(s) ==
    LET keep == {i \in 1..Len(s) : s[i] \notin Whitespace}
    IN  IF keep = {} THEN << >>
        ELSE LET lo == CHOOSE i \in keep : \A j \in keep : i <= j
                 hi == CHOOSE i \in keep : \A j \in keep : j <= i
             IN  SubSeq(s, lo, hi)

(***************************************************************************)
(* int(text): surrounding whitespace is ignored, one optional sign, then   *)
(* decimal digits in which single underscores may separate digits.         *)
(* Anything else raises ValueError.                                        *)
(***************************************************************************)
IntBody(s) ==
    LET t == strip(s)
    IN  IF t # << >> /\ t[1] \in {"+", "-"} THEN Tail(t) ELSE t

IntNegative(s) ==
    LET t == strip(s) IN t # << >> /\ t[1] = "-"

IsIntLiteral(s) ==
    LET b == IntBody(s)
    IN  /\ b # << >>
        /\ \A i \in 1..Len(b) : IsDigit(b[i]) \/ b[i] = "_"
        /\ b[1] # "_"
        /\ b[Len(b)] # "_"
        /\ \A i \in 1..(Len(b) - 1) : ~(b[i] = "_" /\ b[i + 1] = "_")

RECURSIVE DecimalValue(_)
DecimalValue(b) ==
    IF b = << >> THEN 0
    ELSE LET front == SubSeq(b, 1, Len(b) - 1)
             last  == b[Len(b)]
         IN  IF last = "_" THEN DecimalValue(front)
             ELSE 10 * DecimalValue(front) + DigitVal(last)

\* the value of int(s), defined when IsIntLiteral(s)
IntValue(s) ==
    IF IntNegative(s) THEN 0 - DecimalValue(IntBody(s))
    ELSE DecimalValue(IntBody(s))

(***************************************************************************)
(* The input file.  status says whether open() succeeds; lines are the     *)
(* rows csv.reader yields, the header first.  A row is a sequence of       *)
(* fields: county name, seat city, prefix text.                            *)
(***************************************************************************)
csv_filename == "MontanaCounties.csv"

CountyRecords == { <<"Custer", "Miles City">>, <<"Silver Bow", "Butte">> }

PrefixTexts ==
    { <<"1">>, <<" ", "1">>, <<"0">>, <<"a">>, << >> }

DataRows ==
    {<< >>}
    \cup {<<r[1]>> : r \in CountyRecords}
    \cup {<<r[1], r[2]>> : r \in CountyRecords}
    \cup {<<r[1], r[2], p>> : r \in CountyRecords, p \in PrefixTexts}

HeaderRows ==
    { <<"County", "County Seat", <<"a">> >>,
      <<"Custer", "Miles City", <<"2">> >> }

RECURSIVE RowSeqs(_)
RowSeqs(n) ==
    IF n = 0 THEN {<< >>}
    ELSE LET shorter == RowSeqs(n - 1)
         IN  shorter \cup {Append(rs, r) : rs \in {x \in shorter : Len(x) = n - 1},
                                           r \in DataRows}

Files ==
    {[status |-> "missing", lines |-> << >>],
     [status |-> "unreadable", lines |-> << >>],
     [status |-> "readable", lines |-> << >>]}
    \cup {[status |-> "readable", lines |-> <<h>> \o rs] :
             h \in HeaderRows, rs \in RowSeqs(MaxRows)}

(***************************************************************************)
(* load_county_data                                                        *)
(***************************************************************************)
EmptyDict == [p \in {} |-> <<"", "">>]

\* variant: an existing key keeps its first value
DictSet_FirstWins(d, k, v) ==
    [p \in (DOMAIN d) \cup {k} |-> IF p \in DOMAIN d THEN d[p] ELSE v]

DictSet(d, k, v) == [p \in (DOMAIN d) \cup {k} |-> IF p = k THEN v ELSE d[p]]

\* variant: a row whose prefix text is not an integer is skipped
LoadRow_SkipsBadPrefix(d, row) ==
    IF Len(row) < 3
    THEN [exc |-> "IndexError", arg |-> << >>, dict |-> d]
    ELSE IF ~IsIntLiteral(row[3])
    THEN [exc |-> "none", arg |-> << >>, dict |-> d]
    ELSE [exc |-> "none", arg |-> << >>,
          dict |-> [p \in (DOMAIN d) \cup {IntValue(row[3])} |->
                      IF p = IntValue(row[3]) THEN <<row[1], row[2]>> ELSE d[p]]]

\* One iteration of "for row in reader" (lines 41-44): the exception it
\* raises, if any, and the dictionary after it.
LoadRow(d, row) ==
    IF Len(row) < 3
    THEN [exc |-> "IndexError", arg |-> << >>, dict |-> d]
    ELSE IF ~IsIntLiteral(row[3])
    THEN [exc |-> "ValueError", arg |-> row[3], dict |-> d]
    ELSE [exc |-> "none", arg |-> << >>,
          dict |-> DictSet(d, IntValue(row[3]), <<row[1], row[2]>>)]

\* The loop of lines 40-44 over the rows that follow the header.
RECURSIVE LoadRows(_, _)
LoadRows(d, rows) ==
    IF rows = << >> THEN [exc |-> "none", arg |-> << >>, dict |-> d]
    ELSE LET r == LoadRow(d, Head(rows))
         IN  IF r.exc # "none" THEN r ELSE LoadRows(r.dict, Tail(rows))

\* variant: the header line is read as a data row
LoadBody_KeepsHeader(f) ==
    IF f.status = "missing"
    THEN [exc |-> "FileNotFoundError", arg |-> << >>, dict |-> EmptyDict]
    ELSE IF f.status = "unreadable"
    THEN [exc |-> "PermissionError", arg |-> << >>, dict |-> EmptyDict]
    ELSE IF f.lines = << >>
    THEN [exc |-> "StopIteration", arg |-> << >>, dict |-> EmptyDict]
    ELSE LoadRows(EmptyDict, f.lines)

\* The try body, lines 35-46: open, skip the header, read the rows.
LoadBody(f) ==
    IF f.status = "missing"
    THEN [exc |-> "FileNotFoundError", arg |-> << >>, dict |-> EmptyDict]
    ELSE IF f.status = "unreadable"
    THEN [exc |-> "PermissionError", arg |-> << >>, dict |-> EmptyDict]
    ELSE IF f.lines = << >>
    THEN [exc |-> "StopIteration", arg |-> << >>, dict |-> EmptyDict]
    ELSE LoadRows(EmptyDict, Tail(f.lines))

\* variant: a failing row ends the loop and the rows read so far are returned
load_county_data_ReturnsPartial(f) ==
    LET r == LoadBody(f)
    IN  CASE r.exc \in {"none", "ValueError", "IndexError"} ->
               [how |-> "return", dict |-> r.dict, status |-> 0,
                out |-> [kind |-> "Loaded", arg |-> << >>]]
          [] r.exc = "FileNotFoundError" ->
               [how |-> "sys.exit", dict |-> EmptyDict, status |-> 1,
                out |-> [kind |-> "NotFound", arg |-> csv_filename]]
          [] OTHER ->
               [how |-> "uncaught", dict |-> EmptyDict, status |-> 1,
                out |-> [kind |-> "Traceback", arg |-> r.exc]]

\* load_county_data(filename), lines 19-57: what main gets back or how the
\* process ends.  how = "return": the dictionary is returned; "sys.exit":
\* an except clause printed its report and called sys.exit(1); "uncaught":
\* no except clause matches, the exception leaves the program with a
\* traceback and the interpreter's exit status 1.
load_county_data(f) ==
    LET r == LoadBody(f)
    IN  CASE r.exc = "none" ->
               [how |-> "return", dict |-> r.dict, status |-> 0,
                out |-> [kind |-> "Loaded", arg |-> << >>]]
          [] r.exc = "FileNotFoundError" ->
               [how |-> "sys.exit", dict |-> EmptyDict, status |-> 1,
                out |-> [kind |-> "NotFound", arg |-> csv_filename]]
          [] r.exc = "KeyError" ->
               [how |-> "sys.exit", dict |-> EmptyDict, status |-> 1,
                out |-> [kind |-> "MissingColumn", arg |-> r.arg]]
          [] r.exc = "ValueError" ->
               [how |-> "sys.exit", dict |-> EmptyDict, status |-> 1,
                out |-> [kind |-> "MalformedData", arg |-> r.arg]]
          [] OTHER ->
               [how |-> "uncaught", dict |-> EmptyDict, status |-> 1,
                out |-> [kind |-> "Traceback", arg |-> r.exc]]

(***************************************************************************)
(* ask_display_preference: the value returned for one stripped line, or    *)
(* "reprompt" when the line is rejected and the loop asks again.           *)
(***************************************************************************)
\* variant: a line that is no choice selects the default
PreferenceOf_DefaultsOnInvalid(choice) ==
    IF choice = <<"2">> THEN "county"
    ELSE IF choice = <<"3">> THEN "seat"
    ELSE "both"

\* variant: choice 3 returns a value display_result does not know
PreferenceOf_UnknownForThree(choice) ==
    IF choice = << >> \/ choice = <<"1">> THEN "both"
    ELSE IF choice = <<"2">> THEN "county"
    ELSE IF choice = <<"3">> THEN "city"
    ELSE "reprompt"

\* variant: choices 2 and 3 are swapped
PreferenceOf_SwapsTwoThree(choice) ==
    IF choice = << >> \/ choice = <<"1">> THEN "both"
    ELSE IF choice = <<"2">> THEN "seat"
    ELSE IF choice = <<"3">> THEN "county"
    ELSE "reprompt"

PreferenceOf(choice) ==
    IF choice = << >> \/ choice = <<"1">> THEN "both"
    ELSE IF choice = <<"2">> THEN "county"
    ELSE IF choice = <<"3">> THEN "seat"
    ELSE "reprompt"

(***************************************************************************)
(* display_result: the labelled field lines printed between the separator  *)
(* lines, after the line that names the prefix.                            *)
(***************************************************************************)
\* variant: the seat-only branch prints the county name
display_result_SeatShowsCounty(prefix, county_data, display_preference) ==
    IF display_preference = "both"
    THEN [prefix |-> prefix,
          fields |-> << <<"County", county_data[1]>>, <<"County Seat", county_data[2]>> >>]
    ELSE IF display_preference = "county"
    THEN [prefix |-> prefix, fields |-> << <<"County", county_data[1]>> >>]
    ELSE IF display_preference = "seat"
    THEN [prefix |-> prefix, fields |-> << <<"County Seat", county_data[1]>> >>]
    ELSE [prefix |-> prefix, fields |-> << >>]

display_result(prefix, county_data, display_preference) ==
    LET county_name == county_data[1]
        seat_city   == county_data[2]
    IN  IF display_preference = "both"
        THEN [prefix |-> prefix,
              fields |-> << <<"County", county_name>>, <<"County Seat", seat_city>> >>]
        ELSE IF display_preference = "county"
        THEN [prefix |-> prefix, fields |-> << <<"County", county_name>> >>]
        ELSE IF display_preference = "seat"
        THEN [prefix |-> prefix, fields |-> << <<"County Seat", seat_city>> >>]
        ELSE [prefix |-> prefix, fields |-> << >>]

(***************************************************************************)
(* lookup_county: how one normalised line is dispatched (lines 129-153).   *)
(***************************************************************************)
\* variant: 'exit' is not recognised as a command
Dispatch_IgnoresExit(user_input) ==
    IF user_input = <<"c", "h", "a", "n", "g", "e">> THEN "change"
    ELSE IF IsIntLiteral(user_input) THEN "lookup"
    ELSE "invalid"

\* variant: a line that is not a number ends the loop
Dispatch_ExitsOnInvalid(user_input) ==
    IF user_input = <<"e", "x", "i", "t">> THEN "exit"
    ELSE IF user_input = <<"c", "h", "a", "n", "g", "e">> THEN "change"
    ELSE IF IsIntLiteral(user_input) THEN "lookup"
    ELSE "exit"

Dispatch(user_input) ==
    IF user_input = <<"e", "x", "i", "t">> THEN "exit"
    ELSE IF user_input = <<"c", "h", "a", "n", "g", "e">> THEN "change"
    ELSE IF IsIntLiteral(user_input) THEN "lookup"
    ELSE "invalid"

\* variant: an absent prefix is reported as invalid input
Answer_AbsentIsInvalid(user_input, dict, display_preference) ==
    IF ~IsIntLiteral(user_input) \/ IntValue(user_input) \notin DOMAIN dict
    THEN [kind |-> "InvalidInput", arg |-> user_input]
    ELSE [kind |-> "Result",
          arg |-> display_result(IntValue(user_input), dict[IntValue(user_input)],
                                 display_preference)]

\* what lines 141-153 print for a line that is not a command
Answer(user_input, dict, display_preference) ==
    IF ~IsIntLiteral(user_input)
    THEN [kind |-> "InvalidInput", arg |-> user_input]
    ELSE LET prefix == IntValue(user_input)
         IN  IF prefix \in DOMAIN dict
             THEN [kind |-> "Result",
                   arg |-> display_result(prefix, dict[prefix], display_preference)]
             ELSE [kind |-> "PrefixNotFound", arg |-> prefix]

(***************************************************************************)
(* The lines the user may type.                                            *)
(***************************************************************************)
ChoiceLines ==
    { << >>, <<"1">>, <<"2">>, <<"3">>, <<" ", "2", " ">>, <<"4">>,
      <<"e", "x", "i", "t">>, <<"c", "h", "a", "n", "g", "e">> }

QueryLines ==
    { <<"e", "x", "i", "t">>, <<" ", "E", "X", "I", "T", " ">>,
      <<"c", "h", "a", "n", "g", "e">>, <<"C", "h", "a", "n", "g", "e">>,
      <<"1">>, <<"2", " ">>, <<"-", "1">>, <<"a">>, << >> }

(***************************************************************************)
(* The process.                                                            *)
(***************************************************************************)
VARIABLES
    file,                \* the CSV file on disk
    pc,                  \* where the process is
    county_dict,         \* main's county_dict, once load_county_data returned
    display_preference,  \* display_pref of main / display_preference of lookup_county
    user_input,          \* lookup_county's user_input (line 126)
    choice,              \* the last value of ask_display_preference's choice (line 72)
    out,                 \* what the last step reported on the terminal
    exit_status          \* the process exit status, once pc is Exited or Terminated

vars == <<file, pc, county_dict, display_preference, user_input, choice, out,
          exit_status>>

NoLine == <<"<unset>">>

Init ==
    /\ file \in Files
    /\ pc = "main"
    /\ county_dict = EmptyDict
    /\ display_preference = "unset"
    /\ user_input = NoLine
    /\ choice = NoLine
    /\ out = [kind |-> "Banner", arg |-> << >>]
    /\ exit_status = 0

\* main, line 166: load the table or end the process
Load ==
    /\ pc = "main"
    /\ LET r == load_county_data(file)
       IN  /\ out' = r.out
           /\ county_dict' = r.dict
           /\ exit_status' = r.status
           /\ pc' = IF r.how = "return" THEN "ask_display_preference" ELSE "Exited"
    /\ UNCHANGED <<file, display_preference, user_input, choice>>

\* variant: the selector honours 'exit' as a command
Ask_HonoursExit(line) ==
    /\ pc \in {"ask_display_preference", "change"}
    /\ LET c == strip(line)
           p == PreferenceOf(c)
       IN  /\ choice' = c
           /\ IF c = <<"e", "x", "i", "t">>
              THEN /\ out' = [kind |-> "Farewell", arg |-> << >>]
                   /\ pc' = "Terminated"
                   /\ UNCHANGED display_preference
              ELSE IF p = "reprompt"
              THEN /\ out' = [kind |-> "InvalidChoice", arg |-> << >>]
                   /\ UNCHANGED <<display_preference, pc>>
              ELSE /\ display_preference' = p
                   /\ pc' = "lookup_county"
                   /\ out' = IF pc = "change"
                             THEN [kind |-> "PreferenceUpdated", arg |-> << >>]
                             ELSE [kind |-> "Instructions", arg |-> << >>]
    /\ UNCHANGED <<file, county_dict, user_input, exit_status>>

\* one pass of the loop of ask_display_preference (lines 71-81), called from
\* main (line 169) or from lookup_county (line 135)
Ask(line) ==
    /\ pc \in {"ask_display_preference", "change"}
    /\ LET c == strip(line)
           p == PreferenceOf(c)
       IN  /\ choice' = c
           /\ IF p = "reprompt"
              THEN /\ out' = [kind |-> "InvalidChoice", arg |-> << >>]
                   /\ UNCHANGED <<display_preference, pc>>
              ELSE /\ display_preference' = p
                   /\ pc' = "lookup_county"
                   /\ out' = IF pc = "change"
                             THEN [kind |-> "PreferenceUpdated", arg |-> << >>]
                             ELSE [kind |-> "Instructions", arg |-> << >>]
    /\ UNCHANGED <<file, county_dict, user_input, exit_status>>

\* variant: a line that is answered with an error resets the preference
Query_ResetsPreferenceOnError(line) ==
    /\ pc = "lookup_county"
    /\ LET u == lower(strip(line))
           d == Dispatch(u)
       IN  /\ user_input' = u
           /\ IF d = "exit"
              THEN /\ pc' = "Terminated"
                   /\ out' = [kind |-> "Farewell", arg |-> << >>]
                   /\ UNCHANGED display_preference
              ELSE IF d = "change"
              THEN /\ pc' = "change"
                   /\ out' = [kind |-> "PreferenceMenu", arg |-> << >>]
                   /\ UNCHANGED display_preference
              ELSE /\ pc' = "lookup_county"
                   /\ out' = Answer(u, county_dict, display_preference)
                   /\ display_preference' =
                          IF Answer(u, county_dict, display_preference).kind = "Result"
                          THEN display_preference ELSE "both"
    /\ exit_status' = 0
    /\ UNCHANGED <<file, county_dict, choice>>

\* variant: an absent prefix is entered into the table
Query_InsertsOnMiss(line) ==
    /\ pc = "lookup_county"
    /\ LET u == lower(strip(line))
           d == Dispatch(u)
       IN  /\ user_input' = u
           /\ IF d = "exit"
              THEN /\ pc' = "Terminated"
                   /\ out' = [kind |-> "Farewell", arg |-> << >>]
                   /\ UNCHANGED county_dict
              ELSE IF d = "change"
              THEN /\ pc' = "change"
                   /\ out' = [kind |-> "PreferenceMenu", arg |-> << >>]
                   /\ UNCHANGED county_dict
              ELSE /\ pc' = "lookup_county"
                   /\ out' = Answer(u, county_dict, display_preference)
                   /\ county_dict' =
                          IF Answer(u, county_dict, display_preference).kind = "PrefixNotFound"
                          THEN DictSet(county_dict, IntValue(u), <<"", "">>)
                          ELSE county_dict
    /\ exit_status' = 0
    /\ UNCHANGED <<file, display_preference, choice>>

\* one pass of the loop of lookup_county (lines 125-153)
Query(line) ==
    /\ pc = "lookup_county"
    /\ LET u == lower(strip(line))
           d == Dispatch(u)
       IN  /\ user_input' = u
           /\ IF d = "exit"
              THEN /\ pc' = "Terminated"
                   /\ out' = [kind |-> "Farewell", arg |-> << >>]
              ELSE IF d = "change"
              THEN /\ pc' = "change"
                   /\ out' = [kind |-> "PreferenceMenu", arg |-> << >>]
              ELSE /\ pc' = "lookup_county"
                   /\ out' = Answer(u, county_dict, display_preference)
    /\ exit_status' = 0
    /\ UNCHANGED <<file, county_dict, display_preference, choice>>

Next ==
    \/ Load
    \/ \E line \in ChoiceLines : Ask(line)
    \/ \E line \in QueryLines : Query(line)

Spec == Init /\ [][Next]_vars

(***************************************************************************)
(* The user who answers every selector prompt with an accepted choice      *)
(* sooner or later, and who types 'exit' at the query prompt sooner or     *)
(* later.  The selector prompt stays until a choice is accepted (weak      *)
(* fairness); the query prompt is left and re-entered by 'change' (strong  *)
(* fairness).                                                              *)
(***************************************************************************)
AcceptChoice == \E line \in ChoiceLines : Ask(line) /\ pc' = "lookup_county"

\* the pass of lookup_county that reads the line 'exit' (lines 126-131)
TypeExit ==
    /\ pc = "lookup_county"
    /\ Dispatch(<<"e", "x", "i", "t">>) = "exit"
    /\ user_input' = <<"e", "x", "i", "t">>
    /\ pc' = "Terminated"
    /\ out' = [kind |-> "Farewell", arg |-> << >>]
    /\ exit_status' = 0
    /\ UNCHANGED <<file, county_dict, display_preference, choice>>

FairSpec == Init /\ [][Next]_vars /\ WF_vars(AcceptChoice) /\ SF_vars(TypeExit)

(***************************************************************************)
(* Vocabulary of the properties.                                           *)
(***************************************************************************)
ExitLine == <<"e", "x", "i", "t">>

ChangeLine == <<"c", "h", "a", "n", "g", "e">>

\* load_county_data has run
Loaded == pc # "main"

\* load_county_data returned a dictionary to main
LoadSucceeded == pc \in {"ask_display_preference", "lookup_county", "change", "Terminated"}

\* the rows of the file after the header line
FileRows == IF file.lines = << >> THEN << >> ELSE Tail(file.lines)

Opened == file.status = "readable" /\ file.lines # << >>

ShortRow(row) == Len(row) < 3

BadPrefixRow(row) == Len(row) >= 3 /\ ~IsIntLiteral(row[3])

GoodRow(row) == Len(row) >= 3 /\ IsIntLiteral(row[3])

\* the loader's own report of a failure: a message and sys.exit(1)
ReportedFailure(kind) ==
    /\ pc = "Exited"
    /\ out.kind = kind
    /\ exit_status = 1
    /\ county_dict = EmptyDict

(***************************************************************************)
(* C1.  The query loop ends only on the exit command: a step that takes    *)
(* the process from a prompt (the selector or the query prompt) to its end *)
(* is a step of the query prompt whose trimmed, lower-cased line is        *)
(* 'exit'.                                                                 *)
(***************************************************************************)
C1_OnlyExitTerminates ==
    [][ (/\ pc \in {"ask_display_preference", "lookup_county", "change"}
         /\ pc' \in {"Terminated", "Exited"})
        => (pc = "lookup_county" /\ user_input' = ExitLine /\ pc' = "Terminated") ]_vars

\* a line that is not a command was handled and the loop is still running
C1_Witness ==
    /\ pc = "lookup_county"
    /\ user_input \notin {ExitLine, ChangeLine, NoLine}
    /\ out.kind \in {"Result", "PrefixNotFound", "InvalidInput"}

(***************************************************************************)
(* C2.  Whenever a data row of the file has fewer than three fields, the   *)
(* load ends with the loader's malformed-data report and exit status 1,    *)
(* and no table.                                                           *)
(***************************************************************************)
C2_ShortRowReportedMalformed ==
    (Loaded /\ Opened /\ \E i \in 1..Len(FileRows) : ShortRow(FileRows[i]))
    => ReportedFailure("MalformedData")

(***************************************************************************)
(* C3.  When the first row the loader cannot accept is a row whose third   *)
(* field is not an integer, at any position after any number of valid      *)
(* rows, the load ends with the malformed-data report carrying that field  *)
(* and exit status 1.                                                      *)
(***************************************************************************)
C3_BadPrefixReportedMalformed ==
    \A i \in 1..Len(FileRows) :
        (/\ Loaded
         /\ Opened
         /\ BadPrefixRow(FileRows[i])
         /\ \A j \in 1..(i - 1) : GoodRow(FileRows[j]))
        => (ReportedFailure("MalformedData") /\ out.arg = FileRows[i][3])

\* a valid row, then a row with a non-integer prefix, reported
C3_Witness ==
    /\ pc = "Exited"
    /\ Len(FileRows) = 2
    /\ GoodRow(FileRows[1])
    /\ BadPrefixRow(FileRows[2])
    /\ FileRows[2][3] = <<"a">>
    /\ out = [kind |-> "MalformedData", arg |-> <<"a">>]

(***************************************************************************)
(* C4.  Whenever the file cannot be opened, missing or unreadable, the     *)
(* load ends with the loader's not-found report naming the path and exit   *)
(* status 1.                                                               *)
(***************************************************************************)
C4_UnopenableReportedNotFound ==
    (Loaded /\ file.status \in {"missing", "unreadable"})
    => (ReportedFailure("NotFound") /\ out.arg = csv_filename)

(***************************************************************************)
(* C5.  A load failure is fatal: when the file cannot be opened, has no    *)
(* header line, or has a row the loader cannot accept, the process never   *)
(* reaches the preference prompt or the query loop, main never holds a     *)
(* table, no query is answered, and the process ends with a non-zero       *)
(* status.                                                                 *)
(***************************************************************************)
LoadFails ==
    \/ ~Opened
    \/ \E i \in 1..Len(FileRows) : ~GoodRow(FileRows[i])

C5_LoadFailureIsFatal ==
    LoadFails =>
        /\ pc \in {"main", "Exited"}
        /\ county_dict = EmptyDict
        /\ display_preference = "unset"
        /\ user_input = NoLine
        /\ out.kind \notin {"Loaded", "Result", "PrefixNotFound", "InvalidInput"}
        /\ (pc = "Exited" => exit_status = 1)

\* the load failed after a valid row had been inserted
C5_Witness ==
    /\ pc = "Exited"
    /\ Len(FileRows) = 2
    /\ GoodRow(FileRows[1])
    /\ ~GoodRow(FileRows[2])
    /\ county_dict = EmptyDict

(***************************************************************************)
(* C6.  After a successful load every key p of the table maps to the       *)
(* (county, seat) pair of the last row of the file whose prefix text       *)
(* parses to p.                                                            *)
(***************************************************************************)
RowsWithPrefix(p) ==
    {i \in 1..Len(FileRows) : GoodRow(FileRows[i]) /\ IntValue(FileRows[i][3]) = p}

LastRowWithPrefix(p) ==
    CHOOSE i \in RowsWithPrefix(p) : \A j \in RowsWithPrefix(p) : j <= i

C6_LastOccurrenceWins ==
    LoadSucceeded =>
        \A p \in DOMAIN county_dict :
            /\ RowsWithPrefix(p) # {}
            /\ county_dict[p] = <<FileRows[LastRowWithPrefix(p)][1],
                                  FileRows[LastRowWithPrefix(p)][2]>>

\* two rows carry the same prefix with different records, and the loop runs
C6_Witness ==
    /\ pc = "lookup_county"
    /\ Len(FileRows) = 2
    /\ FileRows[1][3] = <<"1">>
    /\ FileRows[2][3] = <<" ", "1">>
    /\ FileRows[1][1] # FileRows[2][1]
    /\ county_dict[1] = <<FileRows[2][1], FileRows[2][2]>>

(***************************************************************************)
(* C7.  After a successful load the keys of the table are exactly the      *)
(* prefix values of the data rows; the header line gives no entry; the     *)
(* table has as many entries as rows when the prefix values are pairwise   *)
(* distinct and never more.                                                *)
(***************************************************************************)
PrefixValues == {IntValue(FileRows[i][3]) : i \in 1..Len(FileRows)}

PrefixesDistinct ==
    \A i, j \in 1..Len(FileRows) :
        i # j => IntValue(FileRows[i][3]) # IntValue(FileRows[j][3])

C7_KeysAreRowPrefixes ==
    LoadSucceeded =>
        /\ DOMAIN county_dict = PrefixValues
        /\ Cardinality(DOMAIN county_dict) <= Len(FileRows)
        /\ (PrefixesDistinct => Cardinality(DOMAIN county_dict) = Len(FileRows))

\* a header that reads like a data row, two data rows with other prefixes
C7_Witness ==
    /\ LoadSucceeded
    /\ file.lines[1] = <<"Custer", "Miles City", <<"2">> >>
    /\ Len(FileRows) = 2
    /\ DOMAIN county_dict = {0, 1}

(***************************************************************************)
(* C8.  After a successful load every key of the table is a positive       *)
(* integer.                                                                *)
(***************************************************************************)
C8_KeysPositive ==
    LoadSucceeded => \A k \in DOMAIN county_dict : k \in Int /\ k > 0

(***************************************************************************)
(* C9.  A step of the query prompt whose line is neither 'exit' nor        *)
(* 'change' shows the record of the key under the current preference when  *)
(* the line is an integer in the table, the not-found message when it is   *)
(* an integer outside the table, the invalid-input message when it is not  *)
(* an integer; the loop keeps running.                                     *)
(***************************************************************************)
C9_QueryOutcomes ==
    [][ (pc = "lookup_county" /\ user_input' \notin {ExitLine, ChangeLine})
        => /\ pc' = "lookup_county"
           /\ IF IsIntLiteral(user_input')
              THEN IF IntValue(user_input') \in DOMAIN county_dict
                   THEN /\ out'.kind = "Result"
                        /\ out'.arg = display_result(IntValue(user_input'),
                                                     county_dict[IntValue(user_input')],
                                                     display_preference)
                   ELSE /\ out'.kind = "PrefixNotFound"
                        /\ out'.arg = IntValue(user_input')
              ELSE /\ out'.kind = "InvalidInput"
                   /\ out'.arg = user_input' ]_vars

\* an absent prefix was reported while another prefix is in the table
C9_Witness ==
    /\ pc = "lookup_county"
    /\ user_input = <<"2">>
    /\ out.kind = "PrefixNotFound"
    /\ out.arg = 2
    /\ DOMAIN county_dict # {}

(***************************************************************************)
(* C10.  The selector entered by 'change' sets the preference to the value *)
(* of the accepted choice ('2' gives county); a rejected choice leaves it, *)
(* and every step of the query prompt leaves it and shows a found record   *)
(* under it.                                                               *)
(***************************************************************************)
C10_ChangeSetsPreference ==
    [][ /\ (pc = "change" /\ pc' = "lookup_county")
           => \/ (choice' \in {<< >>, <<"1">>} /\ display_preference' = "both")
              \/ (choice' = <<"2">> /\ display_preference' = "county")
              \/ (choice' = <<"3">> /\ display_preference' = "seat")
        /\ (pc = "change" /\ pc' = "change")
           => display_preference' = display_preference
        /\ pc = "lookup_county"
           => /\ display_preference' = display_preference
              /\ out'.kind = "Result"
                 => out'.arg = display_result(IntValue(user_input'),
                                              county_dict[IntValue(user_input')],
                                              display_preference') ]_vars

\* 'change' then '2' has just completed
C10_Witness ==
    /\ pc = "lookup_county"
    /\ user_input = ChangeLine
    /\ choice = <<"2">>
    /\ out.kind = "PreferenceUpdated"
    /\ display_preference = "county"

(***************************************************************************)
(* C11.  Every pass of the selector, at startup or after 'change', returns *)
(* both for the trimmed line '1' or the empty line, county for '2', seat   *)
(* for '3'; any other line is rejected with the invalid-choice message and *)
(* the selector prompts again; no pass ends the process.                   *)
(***************************************************************************)
C11_SelectorChoices ==
    [][ (pc \in {"ask_display_preference", "change"})
        => /\ pc' \notin {"Terminated", "Exited"}
           /\ IF choice' \in {<< >>, <<"1">>}
              THEN pc' = "lookup_county" /\ display_preference' = "both"
              ELSE IF choice' = <<"2">>
              THEN pc' = "lookup_county" /\ display_preference' = "county"
              ELSE IF choice' = <<"3">>
              THEN pc' = "lookup_county" /\ display_preference' = "seat"
              ELSE /\ pc' = pc
                   /\ display_preference' = display_preference
                   /\ out'.kind = "InvalidChoice" ]_vars

\* the startup selector has rejected '4' and is prompting again
C11_Witness ==
    /\ pc = "ask_display_preference"
    /\ choice = <<"4">>
    /\ out.kind = "InvalidChoice"
    /\ display_preference = "unset"

(***************************************************************************)
(* C12.  A displayed result carries exactly the fields of the preference:  *)
(* both shows the county name and the seat city, county shows the county   *)
(* name and not the seat city, seat shows the seat city and not the county *)
(* name, each under its own label, for the record of the queried prefix.   *)
(***************************************************************************)
ShownFields == {out.arg.fields[i] : i \in 1..Len(out.arg.fields)}

C12_FieldsFollowPreference ==
    out.kind = "Result" =>
        LET record == county_dict[out.arg.prefix]
            county == <<"County", record[1]>>
            seat   == <<"County Seat", record[2]>>
        IN  /\ display_preference = "both" => ShownFields = {county, seat}
            /\ display_preference = "county" => ShownFields = {county}
            /\ display_preference = "seat" => ShownFields = {seat}
            /\ record[1] # record[2]

\* the record of prefix 1 shown under the seat-only preference
C12_Witness ==
    /\ out.kind = "Result"
    /\ display_preference = "seat"
    /\ out.arg.prefix = 1
    /\ out.arg.fields = << <<"County Seat", county_dict[1][2]>> >>

(***************************************************************************)
(* C13.  A step of the query prompt whose line is not a command and is     *)
(* either not an integer or an integer outside the table leaves the        *)
(* preference, the table and the file as they were, and the loop stays at  *)
(* the query prompt.                                                       *)
(***************************************************************************)
C13_FailedQueryChangesNothing ==
    [][ (/\ pc = "lookup_county"
         /\ user_input' \notin {ExitLine, ChangeLine}
         /\ \/ ~IsIntLiteral(user_input')
            \/ IntValue(user_input') \notin DOMAIN county_dict)
        => /\ display_preference' = display_preference
           /\ county_dict' = county_dict
           /\ file' = file
           /\ pc' = "lookup_county"
           /\ out'.kind \in {"InvalidInput", "PrefixNotFound"} ]_vars

\* a non-numeric line was answered under a preference other than the default
C13_Witness ==
    /\ pc = "lookup_county"
    /\ user_input = <<"a">>
    /\ out.kind = "InvalidInput"
    /\ display_preference = "seat"
    /\ DOMAIN county_dict # {}

(***************************************************************************)
(* C14.  At the query prompt, whatever the preference and whatever came    *)
(* before, a step that reads the line 'exit', also written ' EXIT ', has   *)
(* 'exit' as its normalised line and ends the loop in that step with the   *)
(* farewell and exit status 0.                                             *)
(***************************************************************************)
ExitSpellings == { <<"e", "x", "i", "t">>, <<" ", "E", "X", "I", "T", " ">> }

C14_ExitTerminates ==
    [][ (/\ pc = "lookup_county"
         /\ \E line \in ExitSpellings : user_input' = lower(strip(line)))
        => /\ user_input' = ExitLine
           /\ pc' = "Terminated"
           /\ out'.kind = "Farewell"
           /\ exit_status' = 0
           /\ display_preference' = display_preference ]_vars

\* the loop has ended on 'exit' after the preference had been set to county
C14_Witness ==
    /\ pc = "Terminated"
    /\ user_input = ExitLine
    /\ out.kind = "Farewell"
    /\ display_preference = "county"
    /\ exit_status = 0

(***************************************************************************)
(* C15.  Once load_county_data has returned, no step of the process (the   *)
(* startup selector, found and failed queries, 'change' and its selector,  *)
(* 'exit') changes the key set or any value of the table.                  *)
(***************************************************************************)
C15_TableReadOnly ==
    [][ LoadSucceeded
        => /\ DOMAIN county_dict' = DOMAIN county_dict
           /\ \A p \in DOMAIN county_dict : county_dict'[p] = county_dict[p] ]_vars

\* a two-entry table after an absent prefix was queried under a changed preference
C15_Witness ==
    /\ pc = "lookup_county"
    /\ out.kind = "PrefixNotFound"
    /\ display_preference = "county"
    /\ Cardinality(DOMAIN county_dict) = 2

(***************************************************************************)
(* C16.  While the selector is prompting, at startup or after 'change',    *)
(* the lines 'exit' and 'change' are rejected as invalid choices and the   *)
(* selector prompts again with the preference unchanged; the loop ends     *)
(* only by a step of the query prompt.                                     *)
(***************************************************************************)
C16_NoCommandsInSelector ==
    [][ /\ (pc \in {"ask_display_preference", "change"} /\ choice' \in {ExitLine, ChangeLine})
           => /\ pc' = pc
              /\ out'.kind = "InvalidChoice"
              /\ display_preference' = display_preference
        /\ (pc # "Terminated" /\ pc' = "Terminated")
           => pc = "lookup_county" ]_vars

\* 'exit' typed in the selector entered by 'change': rejected, still prompting
C16_Witness ==
    /\ pc = "change"
    /\ choice = ExitLine
    /\ out.kind = "InvalidChoice"
    /\ user_input = ChangeLine

(***************************************************************************)
(* C17.  In every state of the query loop the preference is one of both,   *)
(* county, seat, and every displayed result shows at least one field of    *)
(* the record.                                                             *)
(***************************************************************************)
C17_PreferenceValid ==
    /\ pc \in {"lookup_county", "change", "Terminated"}
       => display_preference \in {"both", "county", "seat"}
    /\ out.kind = "Result" => Len(out.arg.fields) >= 1

\* a record displayed with both of its fields
C17_Witness ==
    /\ pc = "lookup_county"
    /\ out.kind = "Result"
    /\ display_preference = "both"
    /\ Len(out.arg.fields) = 2

(***************************************************************************)
(* C18.  After a successful load, with a user who sooner or later gives an *)
(* accepted choice at every selector prompt and sooner or later types      *)
(* 'exit' at the query prompt, the process reaches Terminated; and every   *)
(* step taken from a prompt consumes one line of input: a selector step    *)
(* sets choice to the stripped line read, a query step sets user_input to  *)
(* the stripped, lower-cased line read.                                    *)
(***************************************************************************)
C18_EventuallyTerminated ==
    /\ LoadSucceeded ~> (pc = "Terminated")
    /\ [][ /\ (pc \in {"ask_display_preference", "change"})
              => (\E line \in ChoiceLines : choice' = strip(line)) /\ user_input' = user_input
           /\ (pc = "lookup_county")
              => (\E line \in QueryLines : user_input' = lower(strip(line))) /\ choice' = choice
           /\ (pc \in {"Terminated", "Exited"}) => FALSE ]_vars

\* the loop has ended after the selector had been entered again by 'change'
C18_Witness ==
    /\ pc = "Terminated"
    /\ user_input = ExitLine
    /\ choice = <<"3">>
    /\ display_preference = "seat"
    /\ exit_status = 0

=============================================================================
